---- MODULE Spec2Model ----
(***************************************************************************)
(* A model of presenterm's layout-and-draw engine:                         *)
(*   - Layout::compute            (src/src/render/layout.rs)               *)
(*   - TextDrawer::new/draw/truncate, SlideDrawer::draw_code,              *)
(*     SlideDrawer::draw_slide and the Drawer session (src/src/draw.rs)    *)
(* Each component has its own specification over the shared variables:     *)
(*   LayoutSpec, TextSpec, CodeSpec and Spec (session + slide draw).       *)
(***************************************************************************)
EXTENDS Integers, Sequences, FiniteSets, TLC

VARIABLES
    \* build profile: TRUE when integer overflow panics (debug), FALSE when it wraps
    overflow_checks,
    \* ---- Layout::compute
    l_pc, l_alignment, l_columns, l_text_length, l_positioning,
    \* ---- TextDrawer: the style's alignment, dimensions.columns, the fields of
    \* TextDrawer, the locals of draw, the commands queued on the handle
    t_pc, t_alignment, t_columns, elements, t_start_column, t_line_length,
    length_so_far, t_index, chunk, rest, t_offset, t_handle,
    \* ---- SlideDrawer::draw_code: the code style's alignment, dimensions.columns,
    \* the lines of code.contents, the locals of draw_code, the commands queued
    c_pc, c_alignment, c_columns, c_contents, c_start_column, c_max_line_length,
    c_index, c_handle,
    \* ---- the Drawer session and SlideDrawer::draw_slide
    drawer,          \* "none", "alive", "failed" (new returned Err) or "dropped"
    raw_mode,        \* the terminal is in raw mode
    cursor_hidden,   \* by the last cursor::Hide / cursor::Show written to the handle
    restored,        \* how each step of drop ended ("none", "ok" or "failed"), what it raised
    drops,           \* how many times drop ran
    draws,           \* how many times draw_slide was called
    s_pc,            \* "idle", "drawing", or "unwinding" after a panic
    slide,           \* slide.elements of the draw in progress
    s_theme,         \* the theme of the draw in progress
    s_dimensions,    \* what window_size returned to the draw in progress
    program,         \* the operations the draw in progress performs, in order
    s_next,          \* the operation the draw is at
    s_handle,        \* the operations the draw got through, in order
    s_result,        \* what the last draw_slide returned: "none", "ok", "io", "other", "panic"
    failures         \* how many operations of the draw failed

layoutVars == <<l_pc, l_alignment, l_columns, l_text_length, l_positioning>>
textVars == <<t_pc, t_alignment, t_columns, elements, t_start_column, t_line_length,
              length_so_far, t_index, chunk, rest, t_offset, t_handle>>
codeVars == <<c_pc, c_alignment, c_columns, c_contents, c_start_column, c_max_line_length,
              c_index, c_handle>>
sessionVars == <<drawer, raw_mode, cursor_hidden, restored, drops, draws>>
slideVars == <<s_pc, slide, s_theme, s_dimensions, program, s_next, s_handle, s_result,
               failures>>
vars == <<overflow_checks, layoutVars, textVars, codeVars, sessionVars, slideVars>>

----------------------------------------------------------------------------
(* u16 arithmetic *)

U16Max == 65535
U16Mod == U16Max + 1

Min(a, b) == IF a < b THEN a ELSE b
Max(a, b) == IF a > b THEN a ELSE b

saturating_mul(a, b) == Min(a * b, U16Max)
saturating_add(a, b) == Min(a + b, U16Max)
saturating_sub(a, b) == Max(a - b, 0)
\* `a - b` on u16: the wrapped value (what a build without overflow checks yields)
wrapping_sub(a, b) == (a - b + U16Mod) % U16Mod
\* `a * b` on u16, wrapped
wrapping_mul(a, b) == (a * b) % U16Mod
\* `a + b` on u16, wrapped
wrapping_add(a, b) == (a + b) % U16Mod

----------------------------------------------------------------------------
(* Bounds of the model *)

\* values sampled at each end of the u16 range: 0..MaxSmall and U16Max-MaxSmall..U16Max
MaxSmall == 5
\* longest text of a span, in bytes
MaxLen == 4
\* most spans handed to one TextDrawer
MaxSpans == 2
\* widest window of the text and code-block models
MaxColumns == 5
\* largest margin, minimum_margin and minimum_size of the text and code-block models
MaxMargin == 1
\* most lines of a code block
MaxLines == 2
\* most elements of a slide
MaxElements == 2
\* most draw_slide calls of a session
MaxDraws == 2
\* most units one TextDrawer::draw writes before the model stops following it
MaxUnits == 6

U16Samples ==
    (0 .. MaxSmall) \cup {U16Max \div 2, U16Max \div 2 + 1} \cup ((U16Max - MaxSmall) .. U16Max)

----------------------------------------------------------------------------
(* Layout::compute *)

Left(m) == [kind |-> "Left", margin |-> m, minimum_margin |-> 0, minimum_size |-> 0]
Right(m) == [kind |-> "Right", margin |-> m, minimum_margin |-> 0, minimum_size |-> 0]
Center(mm, ms) == [kind |-> "Center", margin |-> 0, minimum_margin |-> mm, minimum_size |-> ms]

NoPositioning == [status |-> "none", max_line_length |-> 0, start_column |-> 0]

\* a theme: its default colours (Some or None each), the alignment of its element
\* styles, where it puts the author
SlideTheme(colors, alignment, author_positioning) ==
    [colors |-> colors, alignment |-> alignment, author_positioning |-> author_positioning]
NoTheme == SlideTheme([background |-> FALSE, foreground |-> FALSE], Left(0), "BelowTitle")

----------------------------------------------------------------------------
(* The state of each component while another component's specification runs *)

LayoutIdle ==
    /\ l_pc = "idle"
    /\ l_alignment = Left(0)
    /\ l_columns = 0
    /\ l_text_length = 0
    /\ l_positioning = NoPositioning

TextIdle ==
    /\ t_pc = "idle"
    /\ t_alignment = Left(0)
    /\ t_columns = 0
    /\ elements = << >>
    /\ t_start_column = 0
    /\ t_line_length = 0
    /\ length_so_far = 0
    /\ t_index = 0
    /\ chunk = << >>
    /\ rest = << >>
    /\ t_offset = <<0, 0>>
    /\ t_handle = << >>

CodeIdle ==
    /\ c_pc = "idle"
    /\ c_alignment = Left(0)
    /\ c_columns = 0
    /\ c_contents = << >>
    /\ c_start_column = 0
    /\ c_max_line_length = 0
    /\ c_index = 0
    /\ c_handle = << >>

\* no Drawer yet, no draw yet
DrawerIdle ==
    /\ drawer = "none"
    /\ raw_mode = FALSE
    /\ cursor_hidden = FALSE
    /\ restored = [show |-> "none", raw |-> "none", raised |-> FALSE]
    /\ drops = 0
    /\ draws = 0
    /\ s_pc = "idle"
    /\ program = << >>
    /\ s_next = 1
    /\ s_handle = << >>
    /\ s_result = "none"
    /\ failures = 0

SessionIdle ==
    /\ DrawerIdle
    /\ slide = << >>
    /\ s_theme = NoTheme
    /\ s_dimensions = [rows |-> 0, columns |-> 0]

----------------------------------------------------------------------------
(* Layout::compute, continued *)

LayoutAlignments ==
    {Left(m) : m \in U16Samples} \cup {Right(m) : m \in U16Samples}
        \cup {Center(mm, ms) : mm \in U16Samples, ms \in U16Samples}

fit_to_columns(columns, required_fit, actual_fit) ==
    IF required_fit > columns THEN 0 ELSE actual_fit

\* A Positioning, or a panic when an unchecked subtraction underflowed in a build
\* with overflow checks.
Positioning(underflow, max_line_length, start_column) ==
    [status |-> IF underflow /\ overflow_checks THEN "panic" ELSE "ok",
     max_line_length |-> max_line_length,
     start_column |-> start_column]

compute_Left(margin0, columns) ==
    LET margin == fit_to_columns(columns, saturating_mul(margin0, 2), margin0)
    IN  Positioning(columns < saturating_mul(margin, 2),
                    wrapping_sub(columns, saturating_mul(margin, 2)),
                    margin)

compute_Right(margin0, columns, text_length) ==
    LET margin == fit_to_columns(columns, saturating_mul(margin0, 2), margin0)
        start_column ==
            Max(saturating_sub(saturating_sub(columns, margin), text_length), margin)
    IN  Positioning(columns < margin \/ wrapping_sub(columns, margin) < start_column,
                    wrapping_sub(wrapping_sub(columns, margin), start_column),
                    start_column)

compute_Center(minimum_margin0, minimum_size0, columns, text_length) ==
    LET minimum_margin ==
            fit_to_columns(columns, saturating_mul(minimum_margin0, 2), minimum_margin0)
        minimum_size ==
            fit_to_columns(columns,
                           saturating_add(minimum_size0, saturating_mul(minimum_margin, 2)),
                           minimum_size0)
        max_line_length ==
            Max(Min(text_length, wrapping_sub(columns, saturating_mul(minimum_margin, 2))),
                minimum_size)
        start_column ==
            IF max_line_length > columns
            THEN minimum_margin
            ELSE Max((columns - max_line_length) \div 2, minimum_margin)
    IN  Positioning(columns < saturating_mul(minimum_margin, 2), max_line_length, start_column)

compute(alignment, columns, text_length) ==
    CASE alignment.kind = "Left" -> compute_Left(alignment.margin, columns)
      [] alignment.kind = "Right" -> compute_Right(alignment.margin, columns, text_length)
      [] alignment.kind = "Center" ->
            compute_Center(alignment.minimum_margin, alignment.minimum_size, columns, text_length)

LayoutInit ==
    /\ SessionIdle
    /\ TextIdle
    /\ CodeIdle
    /\ overflow_checks \in BOOLEAN
    /\ l_pc = "call"
    /\ l_alignment \in LayoutAlignments
    /\ l_columns \in U16Samples
    /\ l_text_length \in U16Samples
    /\ l_positioning = NoPositioning

LayoutCompute ==
    /\ l_pc = "call"
    /\ l_positioning' = compute(l_alignment, l_columns, l_text_length)
    /\ l_pc' = "returned"
    /\ UNCHANGED <<overflow_checks, l_alignment, l_columns, l_text_length, textVars, codeVars,
                   sessionVars, slideVars>>

LayoutNext == LayoutCompute

LayoutSpec == LayoutInit /\ [][LayoutNext]_vars

----------------------------------------------------------------------------
(* Strings: a str is its UTF-8 bytes.  "a" is a one-byte letter, " " the     *)
(* space, and "C3" "A9" the two bytes of the one-column letter e-acute; the   *)
(* list bullets and the title rule are three-byte characters.                *)

ContinuationBytes == {"A9", "80", "A2", "97", "A6", "96", "AA", "94"}
IsContinuation(b) == b \in ContinuationBytes

RECURSIVE StringsOfLen(_)
\* the valid UTF-8 strings of exactly n bytes
StringsOfLen(n) ==
    IF n = 0 THEN {<< >>}
    ELSE {Append(s, b) : s \in StringsOfLen(n - 1), b \in {"a", " "}}
            \cup (IF n >= 2 THEN {s \o <<"C3", "A9">> : s \in StringsOfLen(n - 2)} ELSE {})

Strings == UNION {StringsOfLen(n) : n \in 0 .. MaxLen}

\* str::is_char_boundary, for 0 <= i <= len
is_char_boundary(s, i) == i = 0 \/ i = Len(s) \/ ~IsContinuation(s[i + 1])

\* the rendered width: one column per character
Columns(s) == Cardinality({i \in 1 .. Len(s) : ~IsContinuation(s[i])})

\* &s[from..], from a byte offset
SliceFrom(s, from) == SubSeq(s, from + 1, Len(s))

RECURSIVE trim_start(_)
trim_start(s) == IF s # << >> /\ Head(s) = " " THEN trim_start(Tail(s)) ELSE s

RECURSIVE trim_end(_)
trim_end(s) ==
    IF s # << >> /\ s[Len(s)] = " " THEN trim_end(SubSeq(s, 1, Len(s) - 1)) ELSE s

\* str::trim
trim(s) == trim_end(trim_start(s))

\* the byte offset of the last ' ' of s, -1 when it has none
LastSpace(s) ==
    LET at == {i \in 1 .. Len(s) : s[i] = " "}
    IN  IF at = {} THEN -1 ELSE (CHOOSE i \in at : \A j \in at : j <= i) - 1

----------------------------------------------------------------------------
(* TextDrawer *)

\* commands queued on the handle; a Print carries the index of its element and
\* the byte offset of its text in the element's text
Cmd(op, n) == [op |-> op, n |-> n, text |-> << >>, el |-> 0, at |-> 0]
PrintStyledContent(text, el, at) ==
    [op |-> "PrintStyledContent", n |-> 0, text |-> text, el |-> el, at |-> at]

\* apply_colors with a background and a foreground colour
apply_colors_cmds(colors) ==
    (IF colors.background THEN <<Cmd("SetBackgroundColor", 0)>> ELSE << >>)
        \o (IF colors.foreground THEN <<Cmd("SetForegroundColor", 0)>> ELSE << >>)

TextColors == [background |-> TRUE, foreground |-> TRUE]

RECURSIVE SumLen(_)
SumLen(texts) == IF texts = << >> THEN 0 ELSE Len(Head(texts)) + SumLen(Tail(texts))

\* TextDrawer::new: [panic, start_column, line_length]
TextDrawer_new(alignment, texts, columns) ==
    LET text_length == SumLen(texts) % U16Mod
    IN  CASE alignment.kind = "Left" ->
                LET margin == alignment.margin
                    overflow == margin * 2 > U16Max \/ columns < wrapping_mul(margin, 2)
                IN  [panic |-> overflow /\ overflow_checks,
                     start_column |-> margin,
                     line_length |-> wrapping_sub(columns, wrapping_mul(margin, 2))]
          [] alignment.kind = "Center" ->
                LET minimum_margin == alignment.minimum_margin
                    minimum_size == alignment.minimum_size
                    overflow ==
                        minimum_margin * 2 > U16Max \/ columns < wrapping_mul(minimum_margin, 2)
                    len ==
                        Max(Min(text_length,
                                wrapping_sub(columns, wrapping_mul(minimum_margin, 2))),
                            minimum_size)
                IN  [panic |-> overflow /\ overflow_checks,
                     start_column |->
                        IF len > columns
                        THEN minimum_margin
                        ELSE Max((columns - len) \div 2, minimum_margin),
                     line_length |-> len]

\* TextDrawer::truncate: [panic, chunk, rest]; it panics when word[0..line_length]
\* does not end on a character boundary
truncate(word, len) ==
    IF Len(word) <= len
    THEN [panic |-> FALSE, chunk |-> word, rest |-> << >>]
    ELSE IF ~is_char_boundary(word, len)
    THEN [panic |-> TRUE, chunk |-> << >>, rest |-> << >>]
    ELSE LET target_chunk == SubSeq(word, 1, len)
             output_chunk ==
                IF LastSpace(target_chunk) >= 0
                THEN SubSeq(target_chunk, 1, LastSpace(target_chunk))
                ELSE target_chunk
         IN  [panic |-> FALSE, chunk |-> output_chunk,
              rest |-> trim(SliceFrom(word, Len(output_chunk)))]

\* the byte offset, in the text truncate was given, at which its rest begins
RestOffset(word, t) ==
    LET tail == SliceFrom(word, Len(t.chunk))
    IN  Len(t.chunk) + (Len(tail) - Len(trim_start(tail)))

\* length_so_far += styled.content().len() as u16
add_length(so_far, text) == wrapping_add(so_far, Len(text) % U16Mod)

\* what one pass of the loop of draw queues for a chunk: a line advance when the
\* length so far exceeds the line length, the styled chunk, the default colours
unit_cmds(so_far, text, el, at, start, len, colors) ==
    (IF add_length(so_far, text) > len
     THEN <<Cmd("MoveDown", 1), Cmd("MoveToColumn", start)>>
     ELSE << >>)
        \o <<PrintStyledContent(text, el, at)>>
        \o apply_colors_cmds(colors)

TextAlignments ==
    {Left(m) : m \in 0 .. MaxMargin}
        \cup {Center(mm, ms) : mm \in 0 .. MaxMargin, ms \in 0 .. MaxMargin}

\* draw_formatted_texts returns early on an empty list: a TextDrawer has elements
ElementLists == UNION {[1 .. n -> Strings] : n \in 1 .. MaxSpans}

TextInit ==
    /\ SessionIdle
    /\ LayoutIdle
    /\ CodeIdle
    /\ overflow_checks \in BOOLEAN
    /\ t_pc = "new"
    /\ t_alignment \in TextAlignments
    /\ t_columns \in 0 .. MaxColumns
    /\ elements \in ElementLists
    /\ t_start_column = 0
    /\ t_line_length = 0
    /\ length_so_far = 0
    /\ t_index = 0
    /\ chunk = << >>
    /\ rest = << >>
    /\ t_offset = <<0, 0>>
    /\ t_handle = << >>

\* TextDrawer::new
TextDrawerNew ==
    /\ t_pc = "new"
    /\ LET made == TextDrawer_new(t_alignment, elements, t_columns)
       IN  /\ t_pc' = IF made.panic THEN "panic" ELSE "draw"
           /\ t_start_column' = made.start_column
           /\ t_line_length' = made.line_length
    /\ UNCHANGED <<overflow_checks, layoutVars, codeVars, sessionVars, slideVars,
                   t_alignment, t_columns, elements,
                   length_so_far, t_index, chunk, rest, t_offset, t_handle>>

\* the for loop of draw reaches element i: truncate(&element.text)
EnterElement(i) ==
    IF i > Len(elements)
    THEN /\ t_pc' = "done"
         /\ UNCHANGED <<t_index, chunk, rest, t_offset>>
    ELSE LET t == truncate(elements[i], t_line_length)
         IN  /\ t_pc' = IF t.panic THEN "panic" ELSE "loop"
             /\ t_index' = i
             /\ chunk' = t.chunk
             /\ rest' = t.rest
             /\ t_offset' = <<0, RestOffset(elements[i], t)>>

\* draw, up to the first truncate
TextDrawerDrawStart ==
    /\ t_pc = "draw"
    /\ length_so_far' = 0
    /\ t_handle' = <<Cmd("MoveToColumn", t_start_column)>>
    /\ EnterElement(1)
    /\ UNCHANGED <<overflow_checks, layoutVars, codeVars, sessionVars, slideVars,
                   t_alignment, t_columns, elements,
                   t_start_column, t_line_length>>

\* one pass of the loop of draw: write the chunk, then truncate the rest or go to
\* the next element
TextDrawerDrawUnit ==
    /\ t_pc = "loop"
    /\ Cardinality({k \in 1 .. Len(t_handle) : t_handle[k].op = "PrintStyledContent"}) < MaxUnits
    /\ length_so_far' = add_length(length_so_far, chunk)
    /\ t_handle' = t_handle
            \o unit_cmds(length_so_far, chunk, t_index, t_offset[1], t_start_column,
                         t_line_length, TextColors)
    /\ IF rest = << >>
       THEN EnterElement(t_index + 1)
       ELSE LET t == truncate(rest, t_line_length)
            IN  /\ t_pc' = IF t.panic THEN "panic" ELSE "loop"
                /\ chunk' = t.chunk
                /\ rest' = t.rest
                /\ t_offset' = <<t_offset[2], t_offset[2] + RestOffset(rest, t)>>
                /\ UNCHANGED t_index
    /\ UNCHANGED <<overflow_checks, layoutVars, codeVars, sessionVars, slideVars,
                   t_alignment, t_columns, elements,
                   t_start_column, t_line_length>>

TextNext == TextDrawerNew \/ TextDrawerDrawStart \/ TextDrawerDrawUnit

TextSpec == TextInit /\ [][TextNext]_vars

----------------------------------------------------------------------------
(* SlideDrawer::draw_code *)

\* CodeHighlighter::highlight: one CodeLine per line of the contents, its raw
\* text and its styled text with the trailing newline
highlight(contents) ==
    [i \in 1 .. Len(contents) |->
        [original |-> contents[i], formatted |-> contents[i] \o <<"\n">>]]

\* String::pop
pop(s) == IF s = << >> THEN s ELSE SubSeq(s, 1, Len(s) - 1)

\* a padded line: the styled text without its last character, followed by n
\* spaces and a newline
PrintLine(text, n, i) == [op |-> "Print", n |-> n, text |-> text, el |-> i, at |-> 0]

\* code.contents.lines().map(|line| line.len()).max().unwrap_or(0)
LongestLine(contents) ==
    IF contents = << >> THEN 0
    ELSE LET lens == {Len(contents[i]) : i \in 1 .. Len(contents)}
         IN  CHOOSE n \in lens : \A m \in lens : m <= n

\* the start column of the block: [panic, start_column]
code_start_column(alignment, contents, columns) ==
    CASE alignment.kind = "Left" -> [panic |-> FALSE, start_column |-> alignment.margin]
      [] alignment.kind = "Center" ->
            LET max_line_length == Max(LongestLine(contents), alignment.minimum_size)
                as_u16 == max_line_length % U16Mod
                column == wrapping_sub(columns, as_u16) \div 2
            IN  [panic |-> columns < as_u16 /\ overflow_checks,
                 start_column |-> Max(column, alignment.minimum_margin)]

\* (self.dimensions.columns - start_column * 2) as usize: [panic, max_line_length]
code_max_line_length(columns, start) ==
    [panic |-> (start * 2 > U16Max \/ columns < wrapping_mul(start, 2)) /\ overflow_checks,
     max_line_length |-> wrapping_sub(columns, wrapping_mul(start, 2))]

\* max_line_length.saturating_sub(line_length), on usize
until_right_edge_unsaturated(max_line_length, len) == max_line_length - len
until_right_edge(max_line_length, len) == Max(max_line_length - len, 0)

CodeContents == UNION {[1 .. n -> Strings] : n \in 0 .. MaxLines}

CodeInit ==
    /\ SessionIdle
    /\ LayoutIdle
    /\ TextIdle
    /\ overflow_checks \in BOOLEAN
    /\ c_pc = "start"
    /\ c_alignment \in TextAlignments
    /\ c_columns \in 0 .. MaxColumns
    /\ c_contents \in CodeContents
    /\ c_start_column = 0
    /\ c_max_line_length = 0
    /\ c_index = 0
    /\ c_handle = << >>

\* draw_code, up to the for loop
DrawCodeStart ==
    /\ c_pc = "start"
    /\ LET start == code_start_column(c_alignment, c_contents, c_columns)
           width == code_max_line_length(c_columns, start.start_column)
       IN  /\ c_start_column' = start.start_column
           /\ c_handle' = IF start.panic THEN << >>
                          ELSE <<Cmd("MoveToColumn", start.start_column)>>
           /\ c_max_line_length' = width.max_line_length
           /\ c_pc' = IF start.panic \/ width.panic THEN "panic" ELSE "lines"
    /\ c_index' = 1
    /\ UNCHANGED <<overflow_checks, layoutVars, textVars, sessionVars, slideVars,
                   c_alignment, c_columns, c_contents>>

\* one pass of the for loop of draw_code
DrawCodeLine ==
    /\ c_pc = "lines"
    /\ c_index <= Len(c_contents)
    /\ LET code_line == highlight(c_contents)[c_index]
           line_length == Len(code_line.original)
       IN  c_handle' = c_handle
                \o <<PrintLine(pop(code_line.formatted),
                               until_right_edge(c_max_line_length, line_length), c_index),
                     Cmd("MoveToColumn", c_start_column)>>
    /\ c_index' = c_index + 1
    /\ UNCHANGED <<overflow_checks, layoutVars, textVars, sessionVars, slideVars,
                   c_pc, c_alignment, c_columns,
                   c_contents, c_start_column, c_max_line_length>>

\* draw_code, after the for loop
DrawCodeEnd ==
    /\ c_pc = "lines"
    /\ c_index > Len(c_contents)
    /\ c_handle' = Append(c_handle, Cmd("MoveDown", 1))
    /\ c_pc' = "done"
    /\ UNCHANGED <<overflow_checks, layoutVars, textVars, sessionVars, slideVars,
                   c_alignment, c_columns, c_contents,
                   c_start_column, c_max_line_length, c_index>>

CodeNext == DrawCodeStart \/ DrawCodeLine \/ DrawCodeEnd

CodeSpec == CodeInit /\ [][CodeNext]_vars

----------------------------------------------------------------------------
(* The commands of a whole text draw and of a whole code block, as sequences *)

\* where a draw panics: nothing after it is performed
PanicCmd == Cmd("panic", 0)

RECURSIVE draw_from(_, _, _, _, _, _)
RECURSIVE draw_units(_, _, _, _, _, _, _)
\* the for loop of TextDrawer::draw from element i on
draw_from(texts, i, so_far, start, len, colors) ==
    IF i > Len(texts) THEN << >>
    ELSE LET t == truncate(texts[i], len)
         IN  IF t.panic THEN <<PanicCmd>>
             ELSE draw_units(texts, i, t, so_far, start, len, colors)
\* the loop of TextDrawer::draw from the chunk of t on
draw_units(texts, i, t, so_far, start, len, colors) ==
    unit_cmds(so_far, t.chunk, i, 0, start, len, colors)
        \o (IF t.rest = << >>
            THEN draw_from(texts, i + 1, add_length(so_far, t.chunk), start, len, colors)
            ELSE LET t2 == truncate(t.rest, len)
                 IN  IF t2.panic THEN <<PanicCmd>>
                     ELSE draw_units(texts, i, t2, add_length(so_far, t.chunk),
                                     start, len, colors))

\* SlideDrawer::draw_formatted_texts
draw_formatted_texts(texts, alignment, columns, colors) ==
    IF texts = << >> THEN << >>
    ELSE LET made == TextDrawer_new(alignment, texts, columns)
         IN  IF made.panic THEN <<PanicCmd>>
             ELSE <<Cmd("MoveToColumn", made.start_column)>>
                    \o draw_from(texts, 1, 0, made.start_column, made.line_length, colors)

Formatted(text) == [kind |-> "Formatted", text |-> text]
Image == [kind |-> "Image", text |-> << >>]
LineBreak == [kind |-> "LineBreak", text |-> << >>]

RECURSIVE draw_text_from(_, _, _, _, _)
\* the for loop of SlideDrawer::draw_text and its last draw_formatted_texts;
\* draw_image loads the image, then draws it
draw_text_from(chunks, texts, alignment, columns, colors) ==
    IF chunks = << >> THEN draw_formatted_texts(texts, alignment, columns, colors)
    ELSE CASE Head(chunks).kind = "Formatted" ->
                draw_text_from(Tail(chunks), Append(texts, Head(chunks).text),
                               alignment, columns, colors)
           [] Head(chunks).kind = "Image" ->
                draw_formatted_texts(texts, alignment, columns, colors)
                    \o <<Cmd("resources.image", 0), Cmd("MediaDrawer.draw_image", 0)>>
                    \o draw_text_from(Tail(chunks), << >>, alignment, columns, colors)
           [] Head(chunks).kind = "LineBreak" ->
                draw_formatted_texts(texts, alignment, columns, colors)
                    \o <<Cmd("MoveToNextLine", 1)>>
                    \o draw_text_from(Tail(chunks), << >>, alignment, columns, colors)

\* SlideDrawer::draw_text
draw_text(text, alignment, columns, colors) ==
    draw_text_from(text, << >>, alignment, columns, colors)

RECURSIVE code_lines_from(_, _, _, _)
\* the for loop of draw_code from line i on
code_lines_from(contents, i, start, max_line_length) ==
    IF i > Len(contents) THEN << >>
    ELSE <<PrintLine(pop(highlight(contents)[i].formatted),
                     until_right_edge(max_line_length, Len(highlight(contents)[i].original)),
                     i),
           Cmd("MoveToColumn", start)>>
            \o code_lines_from(contents, i + 1, start, max_line_length)

\* SlideDrawer::draw_code
draw_code(contents, alignment, columns) ==
    LET start == code_start_column(alignment, contents, columns)
        width == code_max_line_length(columns, start.start_column)
    IN  IF start.panic THEN <<PanicCmd>>
        ELSE <<Cmd("MoveToColumn", start.start_column)>>
                \o (IF width.panic THEN <<PanicCmd>>
                    ELSE code_lines_from(contents, 1, start.start_column,
                                         width.max_line_length)
                            \o <<Cmd("MoveDown", 1)>>)

----------------------------------------------------------------------------
(* Elements and their drawers *)

Element(kind, text, sub_title, author, items, contents) ==
    [kind |-> kind, text |-> text, sub_title |-> sub_title, author |-> author,
     items |-> items, contents |-> contents]
\* title, sub_title and author are Strings; an Option is a sequence of none or one
PresentationMetadata(title, sub_title, author) ==
    Element("PresentationMetadata", <<Formatted(title)>>, sub_title, author, << >>, << >>)
SlideTitle(text) == Element("SlideTitle", text, << >>, << >>, << >>, << >>)
Heading(text) == Element("Heading", text, << >>, << >>, << >>, << >>)
Paragraph(text) == Element("Paragraph", text, << >>, << >>, << >>, << >>)
List(items) == Element("List", << >>, << >>, << >>, items, << >>)
Code(contents) == Element("Code", << >>, << >>, << >>, << >>, contents)

ListItem(depth, item_type, number, contents) ==
    [depth |-> depth, item_type |-> item_type, number |-> number, contents |-> contents]

Digits == <<"0", "1", "2", "3", "4", "5", "6", "7", "8", "9">>
RECURSIVE to_string(_)
\* number.to_string()
to_string(n) ==
    IF n < Len(Digits) THEN <<Digits[n + 1]>>
    ELSE to_string(n \div Len(Digits)) \o <<Digits[(n % Len(Digits)) + 1]>>

RECURSIVE repeat(_, _)
\* s.repeat(n)
repeat(str, n) == IF n = 0 THEN << >> ELSE str \o repeat(str, n - 1)

\* the prefix draw_list_item puts before the contents of an item
list_item_prefix(item) ==
    repeat(<<" ">>, (item.depth + 1) * 2)
        \o (CASE item.item_type = "Unordered" ->
                    (CASE item.depth = 0 -> <<"E2", "80", "A2">>
                       [] item.depth = 1 -> <<"E2", "97", "A6">>
                       [] OTHER -> <<"E2", "96", "AA">>)
              [] item.item_type = "OrderedParens" -> to_string(item.number) \o <<")", " ">>
              [] item.item_type = "OrderedPeriod" -> to_string(item.number) \o <<".", " ">>)
        \o <<" ">>

\* SlideDrawer::draw_list_item
draw_list_item(item, alignment, columns, colors) ==
    draw_text(<<Formatted(list_item_prefix(item))>> \o item.contents, alignment, columns, colors)
        \o <<Cmd("MoveToNextLine", 1)>>

RECURSIVE draw_list_items(_, _, _, _)
draw_list_items(items, alignment, columns, colors) ==
    IF items = << >> THEN << >>
    ELSE draw_list_item(Head(items), alignment, columns, colors)
            \o draw_list_items(Tail(items), alignment, columns, colors)

\* SlideDrawer::draw_list
draw_list(items, alignment, columns, colors) ==
    draw_list_items(items, alignment, columns, colors) \o <<Cmd("MoveDown", 2)>>

\* the separator of a slide title: the rule character, once per column
Separator(columns) ==
    [op |-> "Print", n |-> columns, text |-> <<"E2", "80", "94">>, el |-> 0, at |-> 0]

\* SlideDrawer::draw_slide_title
draw_slide_title(text, alignment, columns, colors) ==
    <<Cmd("MoveDown", 1), Cmd("SetAttribute(Bold)", 0)>>
        \o draw_text(text, alignment, columns, colors)
        \o <<Cmd("SetAttribute(Reset)", 0), Cmd("MoveToNextLine", 2)>>
        \o apply_colors_cmds(colors)
        \o <<Separator(columns), Cmd("MoveToNextLine", 2)>>

\* SlideDrawer::draw_heading
draw_heading(text, alignment, columns, colors) ==
    <<Cmd("SetAttribute(Bold)", 0)>>
        \o draw_text(text, alignment, columns, colors)
        \o <<Cmd("SetAttribute(Reset)", 0), Cmd("MoveToNextLine", 2)>>

\* SlideDrawer::draw_paragraph
draw_paragraph(text, alignment, columns, colors) ==
    draw_text(text, alignment, columns, colors) \o <<Cmd("MoveToNextLine", 2)>>

\* SlideDrawer::draw_presentation_metadata
draw_presentation_metadata(metadata, theme, rows, columns) ==
    <<Cmd("MoveToRow", rows \div 2)>>
        \o draw_text(metadata.text, theme.alignment, columns, theme.colors)
        \o <<Cmd("MoveToNextLine", 1)>>
        \o (IF metadata.sub_title # << >>
            THEN draw_text(<<Formatted(metadata.sub_title[1])>>, theme.alignment, columns,
                           theme.colors)
                    \o <<Cmd("MoveToNextLine", 1)>>
            ELSE << >>)
        \o (IF metadata.author # << >>
            THEN (IF theme.author_positioning = "BelowTitle"
                  THEN <<Cmd("MoveToNextLine", 3)>>
                  ELSE <<Cmd("MoveToRow", rows)>>)
                    \o draw_text(<<Formatted(metadata.author[1])>>, theme.alignment, columns,
                                 theme.colors)
            ELSE << >>)

\* SlideDrawer::draw_element
draw_element(element, theme, rows, columns) ==
    CASE element.kind = "PresentationMetadata" ->
            draw_presentation_metadata(element, theme, rows, columns)
      [] element.kind = "SlideTitle" ->
            draw_slide_title(element.text, theme.alignment, columns, theme.colors)
      [] element.kind = "Heading" ->
            draw_heading(element.text, theme.alignment, columns, theme.colors)
      [] element.kind = "Paragraph" ->
            draw_paragraph(element.text, theme.alignment, columns, theme.colors)
      [] element.kind = "List" ->
            draw_list(element.items, theme.alignment, columns, theme.colors)
      [] element.kind = "Code" -> draw_code(element.contents, theme.alignment, columns)

----------------------------------------------------------------------------
(* SlideDrawer::draw_slide as the sequence of operations it performs *)

\* an operation of a draw: a command queued on the handle, a call of an image
\* collaborator, the flush, or a panic; el is the element it belongs to (0: the
\* slide's own operations)
Operation(cmd, el) ==
    [kind |-> CASE cmd.op = "panic" -> "panic"
                [] cmd.op = "flush" -> "flush"
                [] cmd.op = "resources.image" -> "image"
                [] cmd.op = "MediaDrawer.draw_image" -> "image"
                [] OTHER -> "queue",
     cmd |-> [cmd EXCEPT !.el = el]]

Operations(cmds, el) == [k \in 1 .. Len(cmds) |-> Operation(cmds[k], el)]

RECURSIVE draw_elements_from(_, _, _, _, _)
\* the for loop of draw_slide from element i on
draw_elements_from(els, i, theme, rows, columns) ==
    IF i > Len(els) THEN << >>
    ELSE Operations(apply_colors_cmds(theme.colors), 0)
            \o Operations(draw_element(els[i], theme, rows, columns), i)
            \o draw_elements_from(els, i + 1, theme, rows, columns)

\* SlideDrawer::draw_slide
draw_slide_flush_each(els, theme, rows, columns) ==
    Operations(apply_colors_cmds(theme.colors)
                    \o <<Cmd("Clear(All)", 0), Cmd("MoveTo(0,0)", 0), Cmd("flush", 0)>>, 0)
        \o draw_elements_from(els, 1, theme, rows, columns)
draw_slide(els, theme, rows, columns) ==
    Operations(apply_colors_cmds(theme.colors)
                    \o <<Cmd("Clear(All)", 0), Cmd("MoveTo(0,0)", 0)>>, 0)
        \o draw_elements_from(els, 1, theme, rows, columns)
        \o Operations(<<Cmd("flush", 0)>>, 0)

----------------------------------------------------------------------------
(* The Drawer session: new, draw_slide, drop *)

\* dimensions.rows -= 3
FooterRows == 3

\* the `?` after an operation that failed: the draw returns the error, an
\* io::Error as Io, an image error as Other
swallow(kind) == [stop |-> FALSE, error |-> "none"]
propagate(kind) ==
    [stop |-> TRUE, error |-> IF kind = "image" THEN "other" ELSE "io"]

\* Drop::drop: both steps run, `let _ =` discards what each returns
drop_propagating(show_ok, disable_ok) ==
    IF show_ok
    THEN [show |-> "ok", raw |-> IF disable_ok THEN "ok" ELSE "failed",
          raised |-> ~disable_ok]
    ELSE [show |-> "failed", raw |-> "none", raised |-> TRUE]
drop(show_ok, disable_ok) ==
    [show |-> IF show_ok THEN "ok" ELSE "failed",
     raw |-> IF disable_ok THEN "ok" ELSE "failed",
     raised |-> FALSE]

AsciiA == <<"a">>
AccentedE == <<"C3", "A9">>

SampleElements ==
    {PresentationMetadata(AsciiA, <<AsciiA>>, <<AsciiA>>),
     PresentationMetadata(AsciiA, << >>, << >>),
     SlideTitle(<<Formatted(AsciiA)>>),
     Heading(<<Formatted(AsciiA \o <<" ">> \o AsciiA)>>),
     Paragraph(<<Formatted(AsciiA), Image, LineBreak, Formatted(AsciiA)>>),
     Paragraph(<<Formatted(AccentedE \o <<" ">> \o AsciiA)>>),
     List(<<ListItem(0, "Unordered", 0, <<Formatted(AsciiA)>>),
            ListItem(1, "OrderedParens", 1, <<Formatted(AsciiA)>>)>>),
     Code(<<AsciiA, AsciiA \o AsciiA>>)}

Slides == UNION {[1 .. n -> SampleElements] : n \in 0 .. MaxElements}

Themes ==
    {SlideTheme([background |-> b, foreground |-> f], a, p) :
        b \in BOOLEAN, f \in BOOLEAN, a \in {Left(0), Center(0, 0)},
        p \in {"BelowTitle", "PageBottom"}}

\* a window too small for the footer and for any text, and one with room for
\* every sample; the loop of draw on a line length of 0 is examined under TextSpec
Windows ==
    {[rows |-> r, columns |-> c] :
        r \in {FooterRows - 1, FooterRows + MaxSmall}, c \in {1, 3 * MaxColumns}}

\* before Drawer::new; what the session will be asked to draw: the slide shown,
\* the theme, the size of the window
Init ==
    /\ LayoutIdle
    /\ TextIdle
    /\ CodeIdle
    /\ DrawerIdle
    /\ overflow_checks \in BOOLEAN
    /\ slide \in Slides
    /\ s_theme \in Themes
    /\ s_dimensions \in Windows

\* Drawer::new
NewDrawer ==
    /\ drawer = "none"
    /\ \E raw_ok \in BOOLEAN, hide_ok \in BOOLEAN :
        /\ drawer' = IF raw_ok /\ hide_ok THEN "alive" ELSE "failed"
        /\ raw_mode' = raw_ok
        /\ cursor_hidden' = (raw_ok /\ hide_ok)
    /\ UNCHANGED <<overflow_checks, layoutVars, textVars, codeVars, restored, drops, draws,
                   slideVars>>

\* Drawer::draw_slide up to the call of SlideDrawer::draw_slide
DrawSlideBegin ==
    /\ drawer = "alive"
    /\ s_pc = "idle"
    /\ draws < MaxDraws
    /\ draws' = draws + 1
    /\ s_next' = 1
    /\ s_handle' = << >>
    /\ \E window_size_ok \in BOOLEAN :
        IF ~window_size_ok
        THEN /\ program' = << >>
             /\ s_pc' = "idle"
             /\ s_result' = propagate("window_size").error
             /\ failures' = 1
        ELSE IF s_dimensions.rows < FooterRows /\ overflow_checks
        THEN /\ program' = << >>
             /\ s_pc' = "unwinding"
             /\ s_result' = "panic"
             /\ failures' = 0
        ELSE /\ program' = draw_slide(slide, s_theme,
                                      wrapping_sub(s_dimensions.rows, FooterRows),
                                      s_dimensions.columns)
             /\ s_pc' = "drawing"
             /\ s_result' = "none"
             /\ failures' = 0
    /\ UNCHANGED <<overflow_checks, layoutVars, textVars, codeVars, drawer, raw_mode,
                   cursor_hidden, restored, drops, slide, s_theme, s_dimensions>>

\* the operation the draw is at returned Ok: the draw goes on, or returns Ok(())
\* after the last one
Performed ==
    /\ s_handle' = Append(s_handle, program[s_next].cmd)
    /\ s_next' = s_next + 1
    /\ s_pc' = IF s_next = Len(program) THEN "idle" ELSE "drawing"
    /\ s_result' = IF s_next = Len(program) THEN "ok" ELSE "none"
    /\ UNCHANGED <<overflow_checks, layoutVars, textVars, codeVars, sessionVars, slide,
                   s_theme, s_dimensions, program, failures>>

\* the operation the draw is at returned Err
Failed ==
    /\ failures' = failures + 1
    /\ LET out == propagate(program[s_next].kind)
       IN  IF out.stop
           THEN /\ s_pc' = "idle"
                /\ s_result' = out.error
                /\ UNCHANGED <<s_next, s_handle>>
           ELSE /\ s_next' = s_next + 1
                /\ s_pc' = IF s_next = Len(program) THEN "idle" ELSE "drawing"
                /\ s_result' = IF s_next = Len(program) THEN "ok" ELSE "none"
                /\ UNCHANGED s_handle
    /\ UNCHANGED <<overflow_checks, layoutVars, textVars, codeVars, sessionVars, slide,
                   s_theme, s_dimensions, program>>

At(kind) == s_pc = "drawing" /\ s_next <= Len(program) /\ program[s_next].kind = kind

\* handle.queue(command)
QueueCommand == At("queue") /\ Performed
QueueFails == At("queue") /\ Failed
\* resources.image(path), MediaDrawer.draw_image(image, dimensions)
ImageCall == At("image") /\ Performed
ImageFails == At("image") /\ Failed
\* handle.flush()
Flush == At("flush") /\ Performed
FlushFails == At("flush") /\ Failed

\* an arithmetic overflow or a slice off a character boundary: the draw unwinds
Panics ==
    /\ At("panic")
    /\ s_pc' = "unwinding"
    /\ s_result' = "panic"
    /\ UNCHANGED <<overflow_checks, layoutVars, textVars, codeVars, sessionVars, slide,
                   s_theme, s_dimensions, program, s_next, s_handle, failures>>

\* Drop::drop, when the owner lets go of the Drawer or a panic unwinds through it
DropDrawer ==
    /\ drawer = "alive"
    /\ s_pc \in {"idle", "unwinding"}
    /\ drawer' = "dropped"
    /\ drops' = drops + 1
    /\ \E show_ok \in BOOLEAN, disable_ok \in BOOLEAN :
        /\ restored' = drop(show_ok, disable_ok)
        /\ cursor_hidden' = IF restored'.show = "ok" THEN FALSE ELSE cursor_hidden
        /\ raw_mode' = IF restored'.raw = "ok" THEN FALSE ELSE raw_mode
    /\ UNCHANGED <<overflow_checks, layoutVars, textVars, codeVars, draws, slideVars>>

Next ==
    \/ NewDrawer
    \/ DrawSlideBegin
    \/ QueueCommand
    \/ QueueFails
    \/ ImageCall
    \/ ImageFails
    \/ Flush
    \/ FlushFails
    \/ Panics
    \/ DropDrawer

Spec == Init /\ [][Next]_vars

----------------------------------------------------------------------------
(* Claims about Layout::compute *)

\* C1: for every alignment, every columns and every content length, compute is
\* total (no subtraction underflows) and the Positioning it returns satisfies
\* start_column + max_line_length <= columns.
C1_ComputeTotalInBounds ==
    l_pc = "returned" =>
        /\ l_positioning.status = "ok"
        /\ l_positioning.start_column + l_positioning.max_line_length <= l_columns

\* The same statement for every width below u16::MAX, where saturating_mul cannot
\* hide a margin that is too large.
ComputeInBoundsBelowU16Max ==
    (l_pc = "returned" /\ l_columns < U16Max) =>
        /\ l_positioning.status = "ok"
        /\ l_positioning.start_column + l_positioning.max_line_length <= l_columns

\* The rules of the positioning calculator, over the integers.
RuleMargin(m, columns) == IF m * 2 > columns THEN 0 ELSE m
RuleSize(ms, mm, columns) == IF ms + 2 * mm > columns THEN 0 ELSE ms
RulePositioning(alignment, columns, content_length) ==
    CASE alignment.kind = "Left" ->
            LET margin == RuleMargin(alignment.margin, columns)
            IN  [status |-> "ok", max_line_length |-> columns - 2 * margin,
                 start_column |-> margin]
      [] alignment.kind = "Right" ->
            LET margin == RuleMargin(alignment.margin, columns)
                start == Max(margin, columns - margin - content_length)
            IN  [status |-> "ok", max_line_length |-> (columns - margin) - start,
                 start_column |-> start]
      [] alignment.kind = "Center" ->
            LET mm == RuleMargin(alignment.minimum_margin, columns)
                ms == RuleSize(alignment.minimum_size, mm, columns)
                len == Max(ms, Min(content_length, columns - 2 * mm))
            IN  [status |-> "ok", max_line_length |-> len,
                 start_column |-> Max(mm, (columns - len) \div 2)]

\* C2: for every alignment, columns and content length, compute returns exactly
\* the positioning the rules give (a margin with margin*2 > columns and a minimum
\* size with minimum_size + 2*minimum_margin > columns count as 0).
C2_ComputeFollowsRules ==
    l_pc = "returned" =>
        l_positioning = RulePositioning(l_alignment, l_columns, l_text_length)

\* The same statement for every width below u16::MAX.
ComputeFollowsRulesBelowU16Max ==
    (l_pc = "returned" /\ l_columns < U16Max) =>
        l_positioning = RulePositioning(l_alignment, l_columns, l_text_length)

----------------------------------------------------------------------------
(* What one text draw put on the handle *)

IsPrint(k) == t_handle[k].op = "PrintStyledContent"
PrintIdx == {k \in 1 .. Len(t_handle) : IsPrint(k)}

\* the line advances queued before command k: the output line command k is on
Advances(k) == Cardinality({j \in 1 .. k : t_handle[j].op = "MoveDown"})
NumAdvances == Advances(Len(t_handle))

RECURSIVE BytesOnLineUpTo(_, _)
\* the bytes printed on output line l by the first k commands
BytesOnLineUpTo(l, k) ==
    IF k = 0 THEN 0
    ELSE BytesOnLineUpTo(l, k - 1)
            + (IF IsPrint(k) /\ Advances(k) = l THEN Len(t_handle[k].text) ELSE 0)

RECURSIVE ColumnsOnLineUpTo(_, _)
\* the columns printed on output line l by the first k commands
ColumnsOnLineUpTo(l, k) ==
    IF k = 0 THEN 0
    ELSE ColumnsOnLineUpTo(l, k - 1)
            + (IF IsPrint(k) /\ Advances(k) = l THEN Columns(t_handle[k].text) ELSE 0)

\* p and q are two units of the same span, written one after the other
NextUnit(p, q) ==
    /\ p \in PrintIdx /\ q \in PrintIdx /\ p < q
    /\ t_handle[p].el = t_handle[q].el
    /\ \A k \in (p + 1) .. (q - 1) : ~IsPrint(k)

\* the byte offset, in the span's text, at which unit p ends
EndOf(p) == t_handle[p].at + Len(t_handle[p].text)

\* nothing was removed between p and q: truncate cut without finding a space
HardCut(p, q) == NextUnit(p, q) /\ t_handle[q].at = EndOf(p)

\* the cut between p and q has a letter on both sides: it divides a word
DividesWord(p, q) ==
    LET text == elements[t_handle[p].el]
        cut == EndOf(p)
    IN  /\ HardCut(p, q)
        /\ 0 < cut /\ cut < Len(text)
        /\ text[cut] # " " /\ text[cut + 1] # " "

\* the word of text around byte offset cut (letters on both sides of cut)
WordAround(text, cut) ==
    LET first == CHOOSE i \in 1 .. cut :
                    /\ \A j \in i .. cut : text[j] # " "
                    /\ (i = 1 \/ text[i - 1] = " ")
        last == CHOOSE i \in (cut + 1) .. Len(text) :
                    /\ \A j \in (cut + 1) .. i : text[j] # " "
                    /\ (i = Len(text) \/ text[i + 1] = " ")
    IN  SubSeq(text, first, last)

RECURSIVE Letters(_)
\* s without its whitespace
Letters(s) ==
    IF s = << >> THEN << >>
    ELSE (IF Head(s) = " " THEN << >> ELSE <<Head(s)>>) \o Letters(Tail(s))

RECURSIVE WrittenUpTo(_, _)
\* the units of span el among the first k commands, concatenated
WrittenUpTo(el, k) ==
    IF k = 0 THEN << >>
    ELSE WrittenUpTo(el, k - 1)
            \o (IF IsPrint(k) /\ t_handle[k].el = el THEN t_handle[k].text ELSE << >>)

\* unit q was written right after a line advance and a move to the start column
WrappedBefore(q) ==
    q > 2 /\ t_handle[q - 1].op = "MoveToColumn" /\ t_handle[q - 2].op = "MoveDown"

\* the output line that was current when draw came to write unit q
LineBefore(q) == IF WrappedBefore(q) THEN Advances(q) - 1 ELSE Advances(q)

IsAscii(s) == \A i \in 1 .. Len(s) : s[i] \in {"a", " "}
AllAscii == \A i \in 1 .. Len(elements) : IsAscii(elements[i])
Trimmed(s) == s = << >> \/ (s[1] # " " /\ s[Len(s)] # " ")

----------------------------------------------------------------------------
(* Claims about TextDrawer *)

\* C3: no output line of a text draw holds more than max_line_length columns,
\* and a cut divides a word only when that word alone is wider than
\* max_line_length, the unit before the cut then being exactly max_line_length
\* columns wide.
C3_LinesFitWordsWhole ==
    /\ \A l \in 0 .. NumAdvances : ColumnsOnLineUpTo(l, Len(t_handle)) <= t_line_length
    /\ \A p, q \in PrintIdx :
        DividesWord(p, q) =>
            /\ Columns(WordAround(elements[t_handle[p].el], EndOf(p))) > t_line_length
            /\ Columns(t_handle[p].text) = t_line_length

\* The statement of C3 for text of one-byte characters only, where a byte is a column.
LinesFitWordsWholeAscii == AllAscii => C3_LinesFitWordsWhole

\* C4: spans whose combined length fits in max_line_length are drawn with no line
\* advance; spans whose combined length is max_line_length + 1 are drawn with
\* exactly one, and the words either side of a cut are not run together on one
\* line.  Lengths are counted as draw counts them (bytes); the second half is
\* stated for spans that neither begin nor end with whitespace.
C4_AdvancesWhenJustOver ==
    t_pc = "done" =>
        /\ SumLen(elements) <= t_line_length => NumAdvances = 0
        /\ (/\ SumLen(elements) = t_line_length + 1
            /\ \A i \in 1 .. Len(elements) : Trimmed(elements[i]))
           => /\ NumAdvances = 1
              /\ \A p, q \in PrintIdx :
                    (NextUnit(p, q) /\ ~HardCut(p, q)) => Advances(q) > Advances(p)

\* C5: a word wider than max_line_length is cut at exactly max_line_length (bytes,
\* as truncate counts) and never dropped: truncate does not fail, the units of a
\* span hold every letter of its text in order, and the remainder after a hard cut
\* is written after one line advance, from start_column, without leading whitespace.
C5_HardCutKeepsText ==
    /\ t_pc = "panic" => t_handle = << >>
    /\ \A p, q \in PrintIdx :
        HardCut(p, q) =>
            /\ Len(t_handle[p].text) = t_line_length
            /\ Advances(q) = Advances(p) + 1
            /\ t_handle[q - 1] = Cmd("MoveToColumn", t_start_column)
            /\ (t_handle[q].text = << >> \/ t_handle[q].text[1] # " ")
    /\ t_pc = "done" =>
        \A i \in 1 .. Len(elements) :
            Letters(WrittenUpTo(i, Len(t_handle))) = Letters(elements[i])

\* The statement of C5 for text of one-byte characters on a line at least one
\* column wide.
HardCutKeepsTextAscii == (AllAscii /\ t_line_length >= 1) => C5_HardCutKeepsText

\* C10: length_so_far is the width already written on the current output line
\* (bytes, as draw counts), and a unit is preceded by a line advance exactly when
\* it does not fit in what remains of the line.
C10_LengthSoFarIsCurrentLine ==
    t_pc \in {"loop", "done"} =>
        /\ length_so_far = BytesOnLineUpTo(NumAdvances, Len(t_handle))
        /\ \A q \in PrintIdx :
            WrappedBefore(q)
                <=> BytesOnLineUpTo(LineBefore(q), q - 1) + Len(t_handle[q].text)
                        > t_line_length

\* the text the loop of draw is about to hand to truncate, when there is one
\* (the rest of the chunk it is at), and what truncate will return for it
NextTruncate == truncate(rest, t_line_length)

\* C12: the loop of draw ends: every call of truncate on non-empty text returns
\* a rest strictly shorter than the text it was given, the call on an element's
\* whole text and every later call on a rest.
C12_TruncateShortens ==
    t_pc = "loop" =>
        /\ elements[t_index] # << >> => Len(rest) < Len(elements[t_index])
        /\ (rest # << >> /\ ~NextTruncate.panic) => Len(NextTruncate.rest) < Len(rest)

\* with a line length of at least 1 every call of truncate shortens its text
TruncateShortensFromOne == t_line_length >= 1 => C12_TruncateShortens

----------------------------------------------------------------------------
(* Claims about draw_code *)

CodePrints == {k \in 1 .. Len(c_handle) : c_handle[k].op = "Print"}
\* the width of an emitted line, in bytes: its text and the spaces appended
RenderedWidth(k) == Len(c_handle[k].text) + c_handle[k].n
\* columns - 2 * start_column on u16, from the column the block was moved to
BlockWidth == wrapping_sub(c_columns, wrapping_mul(c_handle[1].n, 2))

----------------------------------------------------------------------------
(* Claims about the session and the draw of a slide *)

\* the session was constructed and then dropped
Dropped == drawer = "dropped"

\* C7 as the specification states it: once a session that was constructed has
\* been dropped, whatever its draws did, the cursor is visible and raw mode is
\* off, drop ran exactly once, attempted both of its steps and raised nothing
C7_RestoredWhateverFails ==
    Dropped =>
        /\ ~cursor_hidden
        /\ ~raw_mode
        /\ drops = 1
        /\ restored.show # "none"
        /\ restored.raw # "none"
        /\ ~restored.raised

\* C7, amended: once a session that was constructed has been dropped, drop ran
\* exactly once, attempted both of its steps and raised nothing; the cursor is
\* visible if its Show was written and raw mode is off if disabling it succeeded
C7_RestoreAttemptedOnce ==
    /\ drops <= 1
    /\ Dropped =>
        /\ drops = 1
        /\ restored.show \in {"ok", "failed"}
        /\ restored.raw \in {"ok", "failed"}
        /\ ~restored.raised
        /\ restored.show = "ok" => ~cursor_hidden
        /\ restored.raw = "ok" => ~raw_mode

\* a session dropped after its draws, the last of which returned an error; its
\* Show could not be written, its raw mode was still disabled
C7_Witness ==
    /\ Dropped
    /\ draws = MaxDraws
    /\ s_result \in {"io", "other"}
    /\ restored.show = "failed"
    /\ restored.raw = "ok"
    /\ cursor_hidden
    /\ ~raw_mode

\* the default colours as the draw applies them, outside any element
ThemeColors == Operations(apply_colors_cmds(s_theme.colors), 0)
OpsOf(ops) == [k \in 1 .. Len(ops) |-> ops[k].cmd]

\* the positions of s_handle that belong to element i
PositionsOf(i) == {k \in 1 .. Len(s_handle) : s_handle[k].el = i}
FirstOf(i) == CHOOSE k \in PositionsOf(i) : \A j \in PositionsOf(i) : k <= j
LastOf(i) == CHOOSE k \in PositionsOf(i) : \A j \in PositionsOf(i) : k >= j
Flushes == {k \in 1 .. Len(s_handle) : s_handle[k].op = "flush"}

\* the default colours are what was performed just before position k
ColorsJustBefore(k) ==
    /\ k - Len(ThemeColors) >= 1
    /\ SubSeq(s_handle, k - Len(ThemeColors), k - 1) = OpsOf(ThemeColors)

\* the operations performed for element i are those of its drawer, contiguous
DrawnWhole(i) ==
    /\ PositionsOf(i) # {}
    /\ SubSeq(s_handle, FirstOf(i), LastOf(i))
            = OpsOf(Operations(draw_element(slide[i], s_theme,
                                            wrapping_sub(s_dimensions.rows, FooterRows),
                                            s_dimensions.columns), i))

\* C8: a draw that returned Ok applied the default colours, cleared the screen
\* and moved home, in that order; then it drew every element of the slide, in
\* slide order, each right after a re-application of the default colours; it
\* flushed once, as its last operation
C8_DrawOrder ==
    s_result = "ok" =>
        LET n == Len(ThemeColors)
        IN  /\ Len(s_handle) >= n + 3
            /\ SubSeq(s_handle, 1, n) = OpsOf(ThemeColors)
            /\ s_handle[n + 1].op = "Clear(All)"
            /\ s_handle[n + 2].op = "MoveTo(0,0)"
            /\ Flushes = {Len(s_handle)}
            /\ \A i \in 1 .. Len(slide) :
                /\ DrawnWhole(i)
                /\ ColorsJustBefore(FirstOf(i))
                /\ FirstOf(i) - n - 1 = IF i = 1 THEN n + 2 ELSE LastOf(i - 1)
            /\ \A k \in 1 .. Len(s_handle) : s_handle[k].el \in 0 .. Len(slide)
            /\ Len(s_handle) - 1 = IF slide = << >> THEN n + 2 ELSE LastOf(Len(slide))

\* a draw of a slide of several elements, under a theme with both default
\* colours, returned Ok
C8_Witness ==
    /\ s_result = "ok"
    /\ Len(slide) = MaxElements
    /\ slide[1] # slide[MaxElements]
    /\ s_theme.colors.background
    /\ s_theme.colors.foreground

\* the draw returned an error
Errored == s_result \in {"io", "other"}

\* C9: an operation of a draw that fails ends the draw there: draw_slide returns
\* the error (Other for an image, Io otherwise), nothing it had not yet performed
\* is performed, the sink is not flushed; and no failure leaves the draw going
C9_FailureAborts ==
    /\ failures > 0 => (Errored /\ s_pc = "idle" /\ failures = 1)
    /\ Errored =>
        /\ failures = 1
        /\ s_pc = "idle"
        /\ Flushes = {}
        /\ s_next <= Len(program) =>
            /\ s_handle = OpsOf(SubSeq(program, 1, s_next - 1))
            /\ s_result = (IF program[s_next].kind = "image" THEN "other" ELSE "io")
        /\ s_next > Len(program) => (s_handle = << >> /\ s_result = "io")

\* a draw stopped by a failure inside an element that is not the last, after it
\* had performed operations of that element
C9_Witness ==
    /\ Errored
    /\ s_next <= Len(program)
    /\ program[s_next].cmd.el \in 1 .. Len(slide) - 1
    /\ PositionsOf(program[s_next].cmd.el) # {}

\* C11: the terminal is not in raw mode without a live session to restore it:
\* when Drawer::new returned an error, raw mode is off, also when the error came
\* from hiding the cursor after raw mode had been enabled.
C11_NoRawModeWithoutSession == drawer \in {"none", "failed"} => ~raw_mode

====
